---- MODULE Spec2Model ----
(***************************************************************************)
(* State-machine model of the runtime-support components of the weather    *)
(* MCP server: the TTL cache (utils/cache.ts), the sliding-window rate     *)
(* limiter (utils/rate-limiter.ts), the health monitor (utils/health.ts)   *)
(* and the get_weather request path (tools/weather.ts, services).          *)
(* Time is the value of Date.now() in milliseconds.                        *)
(***************************************************************************)
EXTENDS Integers, Sequences, FiniteSets, TLC

VARIABLES
    now,        \* Date.now()
    ticks,      \* number of clock advances so far (bounds the exploration)
    storage,    \* Cache.storage per cache instance: entries in Map insertion order
    hits,       \* Cache.hits per cache instance
    misses,     \* Cache.misses per cache instance
    requests,   \* RateLimiter.requests: tracked key -> timestamps, in push order
    admitted,   \* history: per key, the times of every call that returned allowed=true
    modules,    \* LazyLoader.modules: the names of the modules loaded so far
    task,       \* the calls in flight: get_weather invocations and direct service calls
    healthStatus,   \* HealthMonitor.healthStatus
    errorCount,     \* HealthMonitor.errorCount
    lastErrorTime,  \* HealthMonitor.lastErrorTime
    run,        \* the getHealthStatus runs in flight, on demand and periodic
    completed,  \* history: the overall status of the run that completed last
    requestCount,   \* PerformanceMonitor.requestCount
    timers,     \* the interval timers that are still scheduled
    exited,     \* process.exit() has been called
    env,        \* process.env: the variables the configuration reads
    serverConfig,   \* the ConfigManager singleton: its state and its settings
    lastOp      \* the last completed call: its name, arguments and outcome

clockVars == <<now, ticks>>
cacheVars == <<storage, hits, misses>>
limiterVars == <<requests, admitted>>
toolVars == <<modules, task>>
healthVars == <<healthStatus, errorCount, lastErrorTime, run, completed>>
processVars == <<requestCount, timers, exited, env, serverConfig>>
vars == <<now, ticks, storage, hits, misses, requests, admitted, modules, task,
          healthStatus, errorCount, lastErrorTime, run, completed,
          requestCount, timers, exited, env, serverConfig, lastOp>>

-----------------------------------------------------------------------------
(* Bounds of the exploration *)

MaxCacheTicks == 2
MaxLimiterTicks == 3
MaxToolTicks == 2
MaxStack == 4
MaxHealthTicks == 1
MaxErrors == 1
MaxMaintenanceTicks == 2
MaxErrorTicks == 2
MaxRequests == 1
MaxShutdownTicks == 1

-----------------------------------------------------------------------------
(* Values *)

NULL == "null"
NoError == "none"
RangeError == "RangeError: Maximum call stack size exceeded"

-----------------------------------------------------------------------------
(* config/index.ts *)

\* A JavaScript number: an integer or NaN
Num(n) == [nan |-> FALSE, n |-> n]
NaN == [nan |-> TRUE, n |-> 0]

\* a < b and a > b on numbers: false whenever an operand is NaN
Less(a, b) == ~a.nan /\ ~b.nan /\ a.n < b.n
Greater(a, b) == ~a.nan /\ ~b.nan /\ a.n > b.n

\* parseInt on the strings used as settings: the leading integer, NaN if there is none
parseInt(str) ==
    CASE str = "0"     -> Num(0)
      [] str = "1"     -> Num(1)
      [] str = "16"    -> Num(16)
      [] str = "17"    -> Num(17)
      [] str = "2.5"   -> Num(2)
      [] str = "10000" -> Num(10000)
      [] str = "abc"   -> NaN

\* process.env.X || fallback: an unset or empty variable gives the fallback
OrDefault(value, fallback) == IF value \in {"unset", ""} THEN fallback ELSE value

\* new URL(u) succeeds
WellFormedUrl(u) == u \notin {"", "not a url"}

DefaultEnv ==
    [GEOCODING_API_URL |-> "unset", WEATHER_API_URL |-> "unset",
     WEATHER_FORECAST_DAYS |-> "unset"]

loadConfig(e) ==
    [geocodingApiUrl |-> OrDefault(e.GEOCODING_API_URL,
                                   "https://geocoding-api.open-meteo.com/v1/search"),
     weatherApiUrl |-> OrDefault(e.WEATHER_API_URL, "https://api.open-meteo.com/v1/forecast"),
     weatherForecastDays |-> parseInt(OrDefault(e.WEATHER_FORECAST_DAYS, "1")),
     requestTimeoutMs |-> parseInt("10000")]

\* validateConfig: the error it throws, if any
validateConfig(c) ==
    IF ~WellFormedUrl(c.geocodingApiUrl) \/ ~WellFormedUrl(c.weatherApiUrl)
    THEN "Invalid API URL configuration"
    ELSE IF Less(c.weatherForecastDays, Num(1)) \/ Greater(c.weatherForecastDays, Num(16))
    THEN "Weather forecast days must be between 1 and 16"
    ELSE NoError

\* new ConfigManager() in the environment e
ConfigManager(e) ==
    LET c == loadConfig(e)
    IN  [state |-> IF validateConfig(c) = NoError THEN "constructed" ELSE "threw",
         threw |-> validateConfig(c),
         settings |-> c]

NotConstructed == [state |-> "none", threw |-> NoError, settings |-> loadConfig(DefaultEnv)]

-----------------------------------------------------------------------------
(* utils/cache.ts *)

Caches == {"small", "geocoding", "weather"}

\* CACHE_CONFIGS
CACHE_CONFIGS ==
    [GEOCODING |-> [defaultTtl |-> 24 * 60 * 60 * 1000, maxSize |-> 1000],
     WEATHER   |-> [defaultTtl |-> 10 * 60 * 1000, maxSize |-> 500],
     GENERAL   |-> [defaultTtl |-> 30 * 60 * 1000, maxSize |-> 100]]

\* The cache of the size-limit test: new Cache({ defaultTtl: 1000, maxSize: 2, ... })
smallCache == [defaultTtl |-> 1000, maxSize |-> 2]

\* The configuration each instance was constructed with
CacheConfig(c) ==
    CASE c = "geocoding" -> CACHE_CONFIGS.GEOCODING
      [] c = "weather"   -> CACHE_CONFIGS.WEATHER
      [] c = "small"     -> smallCache

maxStats == 100

\* Map helpers over the insertion-ordered entry sequence
RECURSIVE IndexOf(_, _, _)
IndexOf(st, k, i) ==
    IF i > Len(st) THEN 0
    ELSE IF st[i].key = k THEN i
    ELSE IndexOf(st, k, i + 1)

MapHas(st, k) == IndexOf(st, k, 1) /= 0

MapDelete(st, k) ==
    LET i == IndexOf(st, k, 1)
    IN  IF i = 0 THEN st
        ELSE SubSeq(st, 1, i - 1) \o SubSeq(st, i + 1, Len(st))

MapSet(st, e) ==
    LET i == IndexOf(st, e.key, 1)
    IN  IF i = 0 THEN Append(st, e) ELSE [st EXCEPT ![i] = e]

MapKeys(st) == {st[i].key : i \in 1..Len(st)}

isExpired(e, t) == (t - e.timestamp) > e.ttl

\* evictOldest: the scan keeps the first entry strictly older than the running minimum
RECURSIVE evictScan(_, _, _, _)
evictScan(st, i, oldestKey, oldestTimestamp) ==
    IF i > Len(st) THEN oldestKey
    ELSE IF st[i].timestamp < oldestTimestamp
         THEN evictScan(st, i + 1, st[i].key, st[i].timestamp)
         ELSE evictScan(st, i + 1, oldestKey, oldestTimestamp)

evictOldest(st, t) ==
    LET oldestKey == evictScan(st, 1, "", t)
    IN  IF oldestKey /= "" THEN MapDelete(st, oldestKey) ELSE st

\* set(key, data, ttl): ttl = 0 stands for an omitted (or zero) ttl argument
setStorage(c, st, k, v, ttl, t) ==
    LET timeToLive == IF ttl /= 0 THEN ttl ELSE CacheConfig(c).defaultTtl
        st1 == IF Len(st) >= CacheConfig(c).maxSize /\ ~MapHas(st, k)
               THEN evictOldest(st, t) ELSE st
    IN  MapSet(st1, [key |-> k, data |-> v, timestamp |-> t, ttl |-> timeToLive])

\* The first get of the class body (lookup, expire on read)
plainGet(cs, k, t) ==
    LET i == IndexOf(cs.storage, k, 1)
    IN  IF i = 0 THEN [threw |-> NoError, res |-> NULL, cs |-> cs]
        ELSE IF isExpired(cs.storage[i], t)
        THEN [threw |-> NoError, res |-> NULL,
              cs |-> [cs EXCEPT !.storage = MapDelete(cs.storage, k)]]
        ELSE [threw |-> NoError, res |-> cs.storage[i].data, cs |-> cs]

\* The class body defines get twice; the later definition replaces the earlier
\* one on the prototype.
PrototypeGet == "statsGet"

\* private originalGet = this.get: the field initializer reads the prototype's get
originalGet == PrototypeGet

\* Hit/miss accounting of the second get
countStats(r) ==
    LET h == IF r.res /= NULL THEN r.cs.hits + 1 ELSE r.cs.hits
        m == IF r.res /= NULL THEN r.cs.misses ELSE r.cs.misses + 1
        over == (h + m) > maxStats
    IN  [r EXCEPT !.cs.hits = IF over THEN h \div 2 ELSE h,
                  !.cs.misses = IF over THEN m \div 2 ELSE m]

\* A call of the method `impl` with `depth` frames already on the call stack
RECURSIVE callGet(_, _, _, _, _)
callGet(impl, cs, k, t, depth) ==
    IF depth >= MaxStack THEN [threw |-> RangeError, res |-> NULL, cs |-> cs]
    ELSE IF impl = "plainGet" THEN plainGet(cs, k, t)
    ELSE LET r == callGet(originalGet, cs, k, t, depth + 1)
         IN  IF r.threw /= NoError THEN r ELSE countStats(r)

\* Mutant: a read of a live entry restamps it (least-recently-used bookkeeping)
get_restampsOnRead(cs, k, t) ==
    LET i == IndexOf(cs.storage, k, 1)
    IN  IF i /= 0 /\ ~isExpired(cs.storage[i], t)
        THEN [threw |-> NoError, res |-> cs.storage[i].data,
              cs |-> [cs EXCEPT !.storage[i].timestamp = t]]
        ELSE plainGet(cs, k, t)

\* Mutant: the rate of an unused cache is reported as 1
calculateHitRate_oneWhenUnused(h, m) == IF h + m > 0 THEN <<h, h + m>> ELSE <<1, 1>>

\* cache.get(key) as seen by a caller
get(cs, k, t) == callGet(PrototypeGet, cs, k, t, 0)

\* Mutant: the scan skips the entry that follows a deleted one
RECURSIVE cleanupSkipScan(_, _, _)
cleanupSkipScan(st, t, i) ==
    IF i > Len(st) THEN <<>>
    ELSE IF isExpired(st[i], t)
         THEN (IF i + 1 <= Len(st) THEN <<st[i + 1]>> ELSE <<>>) \o cleanupSkipScan(st, t, i + 2)
         ELSE <<st[i]>> \o cleanupSkipScan(st, t, i + 1)

cleanupStorage_skipsAfterDelete(st, t) == cleanupSkipScan(st, t, 1)

\* Mutant: an entry whose age equals its ttl is swept too
cleanupStorage_inclusive(st, t) == SelectSeq(st, LAMBDA e : (t - e.timestamp) < e.ttl)

\* cleanup(): every expired entry is deleted
cleanupStorage(st, t) == SelectSeq(st, LAMBDA e : ~isExpired(e, t))

calculateHitRate(h, m) == IF h + m > 0 THEN <<h, h + m>> ELSE <<0, 1>>

getStats(c, cs, t) ==
    [size |-> Len(cs.storage),
     maxSize |-> CacheConfig(c).maxSize,
     expiredEntries |-> Cardinality({i \in 1..Len(cs.storage) : isExpired(cs.storage[i], t)}),
     hitRate |-> calculateHitRate(cs.hits, cs.misses)]

CacheState(c) == [storage |-> storage[c], hits |-> hits[c], misses |-> misses[c]]

-----------------------------------------------------------------------------
(* utils/rate-limiter.ts *)

\* RATE_LIMITS
RATE_LIMITS ==
    [WEATHER_API   |-> [maxRequests |-> 30, windowMs |-> 60 * 1000],
     GEOCODING_API |-> [maxRequests |-> 20, windowMs |-> 60 * 1000],
     TOOL_USAGE    |-> [maxRequests |-> 10, windowMs |-> 60 * 1000]]

\* The keys of the request path: `tool:weather` and `geocoding:${this.apiUrl}`
ToolKey == "tool:weather"
GeocodingKey == "geocoding:https://geocoding-api.open-meteo.com/v1/search"

\* Mutant: the seconds are rounded down
CeilSeconds_floor(x) == x \div 1000

\* Math.ceil(x / 1000) on an integer number of milliseconds
CeilSeconds(x) == -((-x) \div 1000)

\* Math.min(...list) of a non-empty list
RECURSIVE MinOf(_, _, _)
MinOf(list, i, m) ==
    IF i > Len(list) THEN m
    ELSE IF list[i] < m THEN MinOf(list, i + 1, list[i])
    ELSE MinOf(list, i + 1, m)

MathMin(list) == MinOf(list, 2, list[1])

MapGetOr(map, k, default) == IF k \in DOMAIN map THEN map[k] ELSE default

MapPut(map, k, v) ==
    [k2 \in (DOMAIN map) \cup {k} |-> IF k2 = k THEN v ELSE map[k2]]

MapRemove(map, k) == [k2 \in (DOMAIN map) \ {k} |-> map[k2]]

\* Mutant: the comparison of the filter inverted (keeps what left the window)
validRequests_inverted(requestTimes, windowStart) ==
    SelectSeq(requestTimes, LAMBDA time : time < windowStart)

\* requestTimes.filter(time => time > windowStart)
validRequests(requestTimes, windowStart) ==
    SelectSeq(requestTimes, LAMBDA time : time > windowStart)

\* Mutant: a denied call is recorded too
checkLimitDenied_records(reqs, key, config, valid, t) ==
    [allowed |-> FALSE, remaining |-> 0, finite |-> TRUE,
     resetTime |-> MathMin(Append(valid, t)) + config.windowMs,
     retryAfter |-> CeilSeconds(MathMin(Append(valid, t)) + config.windowMs - t),
     requests |-> MapPut(reqs, key, Append(valid, t))]

\* The denied branch of checkLimit: the map is left as it was.
\* finite = FALSE: Math.min() of no argument is Infinity, and so are resetTime and
\* retryAfter (the numbers given for them are then placeholders).
checkLimitDenied(reqs, key, config, valid, t) ==
    IF Len(valid) = 0
    THEN [allowed |-> FALSE, remaining |-> 0, finite |-> FALSE,
          resetTime |-> 0, retryAfter |-> 0, requests |-> reqs]
    ELSE LET oldestRequest == MathMin(valid)
         IN  [allowed |-> FALSE,
              remaining |-> 0,
              finite |-> TRUE,
              resetTime |-> oldestRequest + config.windowMs,
              retryAfter |-> CeilSeconds(oldestRequest + config.windowMs - t),
              requests |-> reqs]

\* Mutant: remaining computed before the push
checkLimitAllowed_beforePush(reqs, key, config, valid, t) ==
    [allowed |-> TRUE,
     remaining |-> config.maxRequests - Len(valid),
     finite |-> TRUE,
     resetTime |-> Append(valid, t)[1] + config.windowMs,
     retryAfter |-> 0,
     requests |-> MapPut(reqs, key, Append(valid, t))]

\* The allowed branch of checkLimit: push now, store the pruned list.
\* retryAfter is absent from an allowed result (0 stands for it).
checkLimitAllowed(reqs, key, config, valid, t) ==
    LET pushed == Append(valid, t)
    IN  [allowed |-> TRUE,
         remaining |-> config.maxRequests - Len(pushed),
         finite |-> TRUE,
         resetTime |-> pushed[1] + config.windowMs,
         retryAfter |-> 0,
         requests |-> MapPut(reqs, key, pushed)]

\* Mutant: one request more than maxRequests fits the window
limitExceeded_offByOne(valid, config) == Len(valid) > config.maxRequests

limitExceeded(valid, config) == Len(valid) >= config.maxRequests

\* checkLimit(key, config) at time t on the map reqs: the result and the new map
checkLimit(reqs, key, config, t) ==
    LET windowStart == t - config.windowMs
        requestTimes == MapGetOr(reqs, key, <<>>)
        valid == validRequests(requestTimes, windowStart)
    IN  IF limitExceeded(valid, config)
        THEN checkLimitDenied(reqs, key, config, valid, t)
        ELSE checkLimitAllowed(reqs, key, config, valid, t)

\* The retention floor of cleanup(): "Keep last 5 minutes"
RetentionMs == 300000

\* Mutant: a key whose timestamps are all gone stays tracked with an empty list
limiterCleanup_keepsEmptyKeys(reqs, t) ==
    [k \in DOMAIN reqs |-> validRequests(reqs[k], t - RetentionMs)]

\* cleanup() at time t
limiterCleanup(reqs, t) ==
    LET kept(k) == validRequests(reqs[k], t - RetentionMs)
    IN  [k \in {k2 \in DOMAIN reqs : Len(kept(k2)) > 0} |-> kept(k)]

\* The sum of the lengths of the tracked lists
RECURSIVE SumLengths(_, _)
SumLengths(reqs, keys) ==
    IF keys = {} THEN 0
    ELSE LET k == CHOOSE k2 \in keys : TRUE
         IN  Len(reqs[k]) + SumLengths(reqs, keys \ {k})

\* RateLimiter.getStats()
limiterGetStats(reqs) ==
    [activeKeys |-> Cardinality(DOMAIN reqs),
     totalTrackedRequests |-> SumLengths(reqs, DOMAIN reqs)]

-----------------------------------------------------------------------------
(* services/geocoding.ts, services/weather.ts, tools/weather.ts, LazyLoader *)

Tasks == {"t1", "t2"}

IdleTask ==
    [kind |-> "none", pc |-> "idle", city |-> "", events |-> <<>>,
     result |-> "none", msg |-> "", retryAfter |-> 0, negCached |-> FALSE,
     startedAt |-> 0]

\* Mutant: the city is taken as it was typed
Trim_asTyped(city) == city

\* String.prototype.trim and toLowerCase on the city names used as inputs
Trim(city) == IF city = " " THEN "" ELSE city
ToLowerCase(city) == IF city = "Madrid" THEN "madrid" ELSE city

\* `geocoding:${city.toLowerCase().trim()}`
geoCacheKey(city) ==
    LET n == Trim(ToLowerCase(city))
    IN  IF n = "madrid" THEN "geocoding:madrid" ELSE "geocoding:"

\* The ttl of a cached negative geocoding result
NegativeTtl == 30 * 60 * 1000

Coordinates == "coordinates"

\* if (cachedResult): a stored null is falsy, like a miss
Truthy(v) == v /= NULL

\* Messages of the errors thrown on the request path
MsgImport == "Cannot find module"
MsgGeoRateLimit == "Rate limit exceeded for geocoding API. Try again in Ns"
MsgHttp == "HTTP 404: Not Found"
MsgInvalid == "Invalid API response structure"
MsgTimeout == "Timeout after 10s"
MsgNetwork == "fetch failed"

\* errorMessage.includes(word)
Includes(msg, word) ==
    CASE word = "Timeout"             -> msg = MsgTimeout
      [] word = "HTTP"                -> msg = MsgHttp
      [] word = "Rate limit exceeded" -> msg = MsgGeoRateLimit

\* Mutant: an error of no known kind is thrown on to the caller
userMessage_rethrowsUnknown(msg) ==
    IF Includes(msg, "Timeout") THEN "timeoutText"
    ELSE IF Includes(msg, "HTTP") THEN "connectionText"
    ELSE IF Includes(msg, "Rate limit exceeded") THEN "rateLimitText"
    ELSE "rejected"

\* The catch block of the get_weather handler: the text chosen for an error
userMessage(msg) ==
    IF Includes(msg, "Timeout") THEN "timeoutText"
    ELSE IF Includes(msg, "HTTP") THEN "connectionText"
    ELSE IF Includes(msg, "Rate limit exceeded") THEN "rateLimitText"
    ELSE "internalErrorText"

\* getCoordinates up to its first await: the cache lookup, then the rate limit.
\* next: "threw" (msg), "cached" (value), "fetch" (the upstream call is started)
getCoordinatesStart(city) ==
    LET cacheKey == geoCacheKey(city)
        g == get(CacheState("geocoding"), cacheKey, now)
        lim == checkLimit(requests, GeocodingKey, RATE_LIMITS.GEOCODING_API, now)
        base == [next |-> "threw", msg |-> "", value |-> NULL, cs |-> g.cs,
                 reqs |-> requests, admit |-> FALSE, events |-> <<>>]
    IN  IF g.threw /= NoError
        THEN [base EXCEPT !.msg = g.threw, !.events = <<"geocoding:lookup:threw">>]
        ELSE IF Truthy(g.res)
        THEN [base EXCEPT !.next = "cached", !.value = g.res,
                          !.events = <<"geocoding:lookup:hit">>]
        ELSE IF ~lim.allowed
        THEN [base EXCEPT !.msg = MsgGeoRateLimit,
                          !.events = <<"geocoding:lookup:miss", "geocoding:limit:denied">>]
        ELSE [base EXCEPT !.next = "fetch", !.reqs = lim.requests, !.admit = TRUE,
                          !.events = <<"geocoding:lookup:miss", "geocoding:limit:allowed",
                                       "geocoding:upstream">>]

\* getWeatherData up to its first await: the upstream call is started at once
getWeatherDataStart == <<"weather:upstream">>

\* WEATHER_REQUEST_TIMEOUT_MS || "10000": the delay of setTimeout(() => controller.abort())
requestTimeout == 10000

\* The abort timer of a call is armed from setTimeout to the clearTimeout that follows
\* the await of fetch; it is no longer armed while response.json() is awaited
timerArmed(pc) == pc = "weatherFetch"

\* The clock may not pass the deadline of an armed abort timer: at the deadline the
\* timer fires and the fetch settles
TimersAllow(d) ==
    \A r \in Tasks :
        timerArmed(task[r].pc) => now + d <= task[r].startedAt + requestTimeout

\* What the awaited fetch settles to, and what the awaited response.json() settles to
HeaderOutcomes == {"ok", "httpError", "timeout", "networkError"}
BodyOutcomes == {"ok", "invalidStructure", "networkError"}

\* The outcome of an upstream call, as the service turns it into a result or an error
FetchOutcomes == {"ok", "empty", "httpError", "invalidStructure", "timeout", "networkError"}
fetchError(outcome) ==
    CASE outcome = "httpError"        -> MsgHttp
      [] outcome = "invalidStructure" -> MsgInvalid
      [] outcome = "timeout"          -> MsgTimeout
      [] outcome = "networkError"     -> MsgNetwork

\* Whether a live negative entry for the city is in the geocoding cache
HasLiveNegative(city) ==
    LET st == storage["geocoding"]
        k == geoCacheKey(city)
    IN  /\ MapHas(st, k)
        /\ st[IndexOf(st, k, 1)].data = NULL
        /\ ~isExpired(st[IndexOf(st, k, 1)], now)

-----------------------------------------------------------------------------
(* utils/health.ts *)

alertThresholds == [memory |-> 80, responseTime |-> 5000]
PeriodicInterval == 5 * 60 * 1000

\* Mutant: the probes are aborted only after two periods
ProbeTimeout_twoPeriods == 2 * (5 * 60 * 1000)

\* AbortSignal.timeout(5000) of each probe of checkExternalAPIs
ProbeTimeout == 5000

HealthRuns == {"demand", "periodic"}

\* The interval timers created when the modules are loaded: one per cache, one of the
\* rate limiter, one of the health monitor
Timers == Caches \cup {"rateLimiter", "healthMonitor"}
ZeroRate == <<0, 1>>
NoMetrics == [requests |-> 0, errors |-> [total |-> 0, rate |-> ZeroRate]]
NoProbes == [setup |-> "", geocoding |-> "", weather |-> ""]
IdleRun == [pc |-> "idle", checks |-> <<>>, status |-> "", startedAt |-> 0,
            probes |-> NoProbes, metrics |-> NoMetrics]

Check(name, status) == [name |-> name, status |-> status]

\* Mutant: the warning band starts at the threshold itself
checkMemory_warnsAtThreshold(memoryPercentage) ==
    [name |-> "memory",
     status |-> IF memoryPercentage > alertThresholds.memory THEN "fail"
                ELSE IF 10 * memoryPercentage >= alertThresholds.memory * 8 THEN "warn"
                ELSE "pass",
     metadata |-> [percentage |-> memoryPercentage]]

\* checkMemory, on the heap ratio as a whole percentage
checkMemory(memoryPercentage) ==
    [name |-> "memory",
     status |-> IF memoryPercentage > alertThresholds.memory THEN "fail"
                ELSE IF 10 * memoryPercentage > alertThresholds.memory * 8 THEN "warn"
                ELSE "pass",
     metadata |-> [percentage |-> memoryPercentage]]

\* Mutant: a cache that was never read is not counted as low
LowHitRate_unlessUnused(rate) == rate[1] > 0 /\ 10 * rate[1] < 3 * rate[2]

\* hitRate < 0.3, on the rate kept as numerator and denominator
LowHitRate(rate) == 10 * rate[1] < 3 * rate[2]

checkCacheHealth(geocodingStats, weatherStats) ==
    [name |-> "cache",
     status |-> IF LowHitRate(geocodingStats.hitRate) \/ LowHitRate(weatherStats.hitRate)
                THEN "warn" ELSE "pass",
     metadata |-> [geocoding |-> geocodingStats, weather |-> weatherStats]]

\* A probe settles: fetch resolves with some HTTP status, rejects, or is aborted by
\* AbortSignal.timeout(5000), which also rejects
ProbeOutcomes == {"resolved:200", "resolved:500", "rejected", "timeout"}
Rejected(outcome) == outcome \in {"rejected", "timeout"}

\* Building the two requests either succeeds or throws inside the try block
ProbeSetups == {"started", "threw"}

\* Mutant: a probe answered with a server error counts as a failure
checkExternalAPIs_needsOk(setup, geocodingProbe, weatherProbe) ==
    LET failures == (IF geocodingProbe /= "resolved:200" THEN 1 ELSE 0)
                    + (IF weatherProbe /= "resolved:200" THEN 1 ELSE 0)
    IN  Check("external_apis",
              IF setup = "threw" THEN "warn"
              ELSE IF failures = 2 THEN "fail"
              ELSE IF failures = 1 THEN "warn"
              ELSE "pass")

checkExternalAPIs(setup, geocodingProbe, weatherProbe) ==
    LET failures == (IF Rejected(geocodingProbe) THEN 1 ELSE 0)
                    + (IF Rejected(weatherProbe) THEN 1 ELSE 0)
    IN  Check("external_apis",
              IF setup = "threw" THEN "warn"
              ELSE IF failures = 2 THEN "fail"
              ELSE IF failures = 1 THEN "warn"
              ELSE "pass")

\* The settings ConfigManager holds once constructed: its constructor has validated
\* both URLs, and empty names fall back to the defaults
serverSettings == [name |-> "MCP Server Custom", version |-> "1.0.0"]
apiUrls == [geocoding |-> "https://geocoding-api.open-meteo.com/v1/search",
            weather |-> "https://api.open-meteo.com/v1/forecast"]
ValidUrl(u) == u \notin {"", "not a url"}

checkConfiguration ==
    Check("configuration",
          IF ~ValidUrl(apiUrls.geocoding) \/ ~ValidUrl(apiUrls.weather) THEN "fail"
          ELSE IF serverSettings.name = "" \/ serverSettings.version = "" THEN "warn"
          ELSE "pass")

criticalModules == {"zod", "dotenv"}

checkDependencies(missingModules) ==
    Check("dependencies", IF missingModules /= {} THEN "fail" ELSE "pass")

\* Mutant: the configuration check is reported last
laterChecks_configurationLast(setup, geocodingProbe, weatherProbe, missingModules) ==
    <<checkExternalAPIs(setup, geocodingProbe, weatherProbe),
      checkDependencies(missingModules),
      checkConfiguration>>

\* The checks pushed after the cache check, in the order of the pushes
laterChecks(setup, geocodingProbe, weatherProbe, missingModules) ==
    <<checkExternalAPIs(setup, geocodingProbe, weatherProbe),
      checkConfiguration,
      checkDependencies(missingModules)>>

RECURSIVE CountStatus(_, _, _)
CountStatus(checks, status, i) ==
    IF i > Len(checks) THEN 0
    ELSE (IF checks[i].status = status THEN 1 ELSE 0) + CountStatus(checks, status, i + 1)

\* Mutant: a single warning already degrades
overallStatus_anyWarn(checks) ==
    IF CountStatus(checks, "fail", 1) > 0 THEN "unhealthy"
    ELSE IF CountStatus(checks, "warn", 1) > 0 THEN "degraded"
    ELSE "healthy"

\* The reduction of the check results to the overall status
overallStatus(checks) ==
    LET failCount == CountStatus(checks, "fail", 1)
        warnCount == CountStatus(checks, "warn", 1)
    IN  IF failCount > 0 THEN "unhealthy"
        ELSE IF warnCount > 1 THEN "degraded"
        ELSE "healthy"

\* Mutant: an error exactly five minutes old is already forgotten
getRecentErrorRate_inclusive(errors, lastError, totalRequests, t) ==
    IF lastError <= t - 5 * 60 * 1000 THEN ZeroRate
    ELSE IF totalRequests > 0 THEN <<errors, totalRequests>> ELSE ZeroRate

\* getRecentErrorRate at time t, the rate kept as numerator and denominator
getRecentErrorRate(errors, lastError, totalRequests, t) ==
    LET fiveMinutesAgo == t - 5 * 60 * 1000
    IN  IF lastError < fiveMinutesAgo THEN ZeroRate
        ELSE IF totalRequests > 0 THEN <<errors, totalRequests>> ELSE ZeroRate

\* The request and error part of getSystemMetrics
getSystemMetrics(errors, lastError, totalRequests, t) ==
    [requests |-> totalRequests,
     errors |-> [total |-> errors,
                 rate |-> getRecentErrorRate(errors, lastError, totalRequests, t)]]

\* Mutant: once unhealthy, the stored status is kept
newHealthStatus_staysUnhealthy(overall, current) ==
    IF current = "unhealthy" THEN current ELSE overall

\* The value of this.healthStatus after a run that computed `overall`
newHealthStatus(overall, current) ==
    IF overall /= current THEN overall ELSE current

-----------------------------------------------------------------------------
(* Inputs *)

Keys == {"", "a", "b"}
Data == {"v1", "v2"}
Ttls == {0, 100}
CacheDeltas == {100}

\* Keys of the rate limiter, each always checked with one configuration
ApiKeys == {"x", "big"}
LimiterKeys == ApiKeys \cup {ToolKey, GeocodingKey}
LimitConfig(key) ==
    CASE key = "x"          -> [maxRequests |-> 2, windowMs |-> 1000]
      [] key = "big"        -> [maxRequests |-> 1, windowMs |-> 600000]
      [] key = ToolKey      -> RATE_LIMITS.TOOL_USAGE
      [] key = GeocodingKey -> RATE_LIMITS.GEOCODING_API
LimiterDeltas == {100, 1000, 300000}

\* One key checked with configurations that differ from call to call
ConfigKeys == {"x"}
Configs == {[maxRequests |-> 0, windowMs |-> 1000],
            [maxRequests |-> 1, windowMs |-> 1000],
            [maxRequests |-> 2, windowMs |-> 600000]}

Cities == {"", " ", "Madrid"}
ToolDeltas == {30000}

\* Upstream calls: half the request timeout and the whole of it
MaxUpstreamTicks == 3
UpstreamDeltas == {5000, 10000}

\* Maintenance: a few cache writes and limiter calls between the cleanups
MaintenanceKeys == {"a", "b"}
MaintenanceDeltas == {100, 300000}

MemoryPercentages == {50, 64, 65, 80, 81}
HealthDeltas == {PeriodicInterval}

\* The periodic tasks: the probes may take up to their timeout, then the rest of the
\* period passes
MaxPeriodicTicks == 4
PeriodicDeltas == {5000, 295000}
ErrorDeltas == {100, 5 * 60 * 1000}
Signals == {"SIGTERM", "SIGINT"}

\* The record of a completed call. Its result is a record whose fields tell its kind:
\* a value (or null, also for a call that returns nothing), a flag, a count, or the
\* object the call returns
Op(name, c, k, res, threw) ==
    [op |-> name, on |-> c, key |-> k, at |-> now, res |-> res, threw |-> threw]
Value(v) == [value |-> v]
Flag(b) == [flag |-> b]
Count(n) == [count |-> n]

-----------------------------------------------------------------------------
(* Actions: the clock *)

Advance(d, bound) ==
    /\ ticks < bound
    /\ now' = now + d
    /\ ticks' = ticks + 1

TickCache ==
    /\ \E d \in CacheDeltas : Advance(d, MaxCacheTicks)
    /\ UNCHANGED <<cacheVars, limiterVars, toolVars, healthVars, processVars, lastOp>>

TickLimiter ==
    /\ \E d \in LimiterDeltas : Advance(d, MaxLimiterTicks)
    /\ UNCHANGED <<cacheVars, limiterVars, toolVars, healthVars, processVars, lastOp>>

TickMaintenance ==
    /\ \E d \in MaintenanceDeltas : Advance(d, MaxMaintenanceTicks)
    /\ UNCHANGED <<cacheVars, limiterVars, toolVars, healthVars, processVars, lastOp>>

(* Actions: Cache *)

Cache_set(c, k, v, ttl) ==
    /\ storage' = [storage EXCEPT ![c] = setStorage(c, storage[c], k, v, ttl, now)]
    /\ lastOp' = Op("set", c, k, Value(NULL), NoError)
    /\ UNCHANGED <<clockVars, healthVars, processVars, hits, misses, limiterVars, toolVars>>

Cache_get(c, k) ==
    LET r == get(CacheState(c), k, now)
    IN  /\ storage' = [storage EXCEPT ![c] = r.cs.storage]
        /\ hits' = [hits EXCEPT ![c] = r.cs.hits]
        /\ misses' = [misses EXCEPT ![c] = r.cs.misses]
        /\ lastOp' = Op("get", c, k, Value(r.res), r.threw)
        /\ UNCHANGED <<clockVars, healthVars, processVars, limiterVars, toolVars>>

Cache_has(c, k) ==
    LET r == get(CacheState(c), k, now)
    IN  /\ storage' = [storage EXCEPT ![c] = r.cs.storage]
        /\ hits' = [hits EXCEPT ![c] = r.cs.hits]
        /\ misses' = [misses EXCEPT ![c] = r.cs.misses]
        /\ lastOp' = Op("has", c, k,
                        Flag(IF r.threw = NoError THEN r.res /= NULL ELSE FALSE), r.threw)
        /\ UNCHANGED <<clockVars, healthVars, processVars, limiterVars, toolVars>>

Cache_delete(c, k) ==
    /\ storage' = [storage EXCEPT ![c] = MapDelete(storage[c], k)]
    /\ lastOp' = Op("delete", c, k, Flag(MapHas(storage[c], k)), NoError)
    /\ UNCHANGED <<clockVars, healthVars, processVars, hits, misses, limiterVars, toolVars>>

Cache_clear(c) ==
    /\ storage' = [storage EXCEPT ![c] = <<>>]
    /\ lastOp' = Op("clear", c, "", Value(NULL), NoError)
    /\ UNCHANGED <<clockVars, healthVars, processVars, hits, misses, limiterVars, toolVars>>

\* cleanup(); the result recorded is cleanedCount, the number it logs
Cache_cleanup(c) ==
    /\ storage' = [storage EXCEPT ![c] = cleanupStorage(storage[c], now)]
    /\ lastOp' = Op("cleanup", c, "",
                    Count(Len(storage[c]) - Len(cleanupStorage(storage[c], now))), NoError)
    /\ UNCHANGED <<clockVars, healthVars, processVars, hits, misses, limiterVars, toolVars>>

Cache_getStats(c) ==
    /\ lastOp' = Op("getStats", c, "", getStats(c, CacheState(c), now), NoError)
    /\ UNCHANGED <<clockVars, healthVars, processVars, cacheVars, limiterVars, toolVars>>

(* Actions: RateLimiter *)

RateLimiter_checkLimit(key, config) ==
    LET r == checkLimit(requests, key, config, now)
    IN  /\ requests' = r.requests
        /\ admitted' = IF r.allowed THEN [admitted EXCEPT ![key] = Append(@, now)]
                       ELSE admitted
        /\ lastOp' = Op("checkLimit", "rateLimiter", key,
                        [allowed |-> r.allowed, remaining |-> r.remaining,
                         finite |-> r.finite,
                         resetTime |-> r.resetTime, retryAfter |-> r.retryAfter,
                         config |-> config],
                        NoError)
        /\ UNCHANGED <<clockVars, healthVars, processVars, cacheVars, toolVars>>

RateLimiter_cleanup ==
    /\ requests' = limiterCleanup(requests, now)
    /\ lastOp' = Op("limiterCleanup", "rateLimiter", "", Value(NULL), NoError)
    /\ UNCHANGED <<clockVars, healthVars, processVars, cacheVars, admitted, toolVars>>

(* Actions: the get_weather tool and the services *)

TickTool ==
    /\ \E d \in ToolDeltas : TimersAllow(d) /\ Advance(d, MaxToolTicks)
    /\ UNCHANGED <<cacheVars, limiterVars, toolVars, healthVars, processVars, lastOp>>

\* The clock while upstream calls are in flight
TickUpstream ==
    /\ \E d \in UpstreamDeltas : TimersAllow(d) /\ Advance(d, MaxUpstreamTicks)
    /\ UNCHANGED <<cacheVars, limiterVars, toolVars, healthVars, processVars, lastOp>>

Free(r) == task[r].pc \in {"idle", "done"}

SetTask(r, t) == task' = [task EXCEPT ![r] = t]

ApplyCache(c, cs) ==
    /\ storage' = [storage EXCEPT ![c] = cs.storage]
    /\ hits' = [hits EXCEPT ![c] = cs.hits]
    /\ misses' = [misses EXCEPT ![c] = cs.misses]

\* Mutant: the pushed timestamp is not stored
ApplyLimit_notStored(key, reqs, admit) ==
    /\ requests' = requests
    /\ admitted' = IF admit THEN [admitted EXCEPT ![key] = Append(@, now)] ELSE admitted

ApplyLimit(key, reqs, admit) ==
    /\ requests' = reqs
    /\ admitted' = IF admit THEN [admitted EXCEPT ![key] = Append(@, now)] ELSE admitted

\* LazyLoader.load('weather-services', importFn) up to its await: a cached module is
\* returned, otherwise importFn is invoked; a load in flight is not looked for
loadStart(mods) ==
    IF "weather-services" \in mods THEN "loader:hit" ELSE "loader:import"

\* Whether the invocation t is awaiting an importFn() that its own load invoked
Importing(t) ==
    /\ t.pc = "loading"
    /\ \E i \in 1..Len(t.events) : t.events[i] = "loader:import"

\* Mutant: the handler goes on whatever the tool-level check said
toolDenied_ignored(lim) == FALSE

\* if (!toolRateLimitResult.allowed)
toolDenied(lim) == ~lim.allowed

\* The handler from its entry to the await of lazyLoader.load: validation, then the
\* tool-level rate limit
Tool_invoke(r, city) ==
    /\ Free(r)
    /\ LET base == [IdleTask EXCEPT !.kind = "tool", !.city = city]
           lim == checkLimit(requests, ToolKey, RATE_LIMITS.TOOL_USAGE, now)
           checked == [base EXCEPT !.events =
                          <<IF lim.allowed THEN "tool:limit:allowed" ELSE "tool:limit:denied">>]
       IN  IF Trim(city) = ""
           THEN /\ SetTask(r, [base EXCEPT !.pc = "done", !.result = "invalidCityText"])
                /\ UNCHANGED limiterVars
           ELSE /\ ApplyLimit(ToolKey, lim.requests, lim.allowed)
                /\ IF toolDenied(lim)
                   THEN SetTask(r, [checked EXCEPT !.pc = "done",
                                       !.result = "toolRateLimitText",
                                       !.retryAfter = lim.retryAfter])
                   ELSE SetTask(r, [checked EXCEPT !.pc = "loading",
                                       !.events = Append(checked.events, loadStart(modules))])
    /\ UNCHANGED <<clockVars, healthVars, processVars, cacheVars, modules, lastOp>>

\* lazyLoader.load settles; on success the handler goes on into getCoordinates, up to
\* its first await
Tool_loaded(r, ok) ==
    /\ task[r].kind = "tool" /\ task[r].pc = "loading"
    /\ ok \/ Importing(task[r])
    /\ LET t == task[r]
           g == getCoordinatesStart(Trim(t.city))
           seen == [t EXCEPT !.events = t.events \o g.events,
                             !.negCached = HasLiveNegative(Trim(t.city))]
       IN  IF ~ok
           THEN /\ SetTask(r, [t EXCEPT !.pc = "done", !.result = userMessage(MsgImport),
                                        !.msg = MsgImport])
                /\ UNCHANGED <<cacheVars, limiterVars, modules>>
           ELSE /\ modules' = modules \cup {"weather-services"}
                /\ ApplyCache("geocoding", g.cs)
                /\ ApplyLimit(GeocodingKey, g.reqs, g.admit)
                /\ CASE g.next = "threw" ->
                          SetTask(r, [seen EXCEPT !.pc = "done", !.msg = g.msg,
                                                  !.result = userMessage(g.msg)])
                     [] g.next = "cached" ->
                          SetTask(r, [seen EXCEPT !.pc = "weatherFetch", !.startedAt = now,
                                        !.events = seen.events \o getWeatherDataStart])
                     [] g.next = "fetch" ->
                          SetTask(r, [seen EXCEPT !.pc = "geoFetch"])
    /\ UNCHANGED <<clockVars, healthVars, processVars, lastOp>>

\* geocodingService.getCoordinates(city) called directly, up to its first await
Geocoding_getCoordinates(r, city) ==
    /\ Free(r)
    /\ LET g == getCoordinatesStart(city)
           seen == [IdleTask EXCEPT !.kind = "geocoding", !.city = city,
                                    !.events = g.events,
                                    !.negCached = HasLiveNegative(city)]
       IN  /\ ApplyCache("geocoding", g.cs)
           /\ ApplyLimit(GeocodingKey, g.reqs, g.admit)
           /\ CASE g.next = "threw" ->
                     SetTask(r, [seen EXCEPT !.pc = "done", !.result = "rejected",
                                             !.msg = g.msg])
                [] g.next = "cached" ->
                     SetTask(r, [seen EXCEPT !.pc = "done", !.result = "resolved:value"])
                [] g.next = "fetch" ->
                     SetTask(r, [seen EXCEPT !.pc = "geoFetch"])
    /\ UNCHANGED <<clockVars, healthVars, processVars, modules, lastOp>>

\* The upstream geocoding call settles: validation, caching, the result.
\* (No call gets past the cache lookup of getCoordinatesStart, so no task waits here.)
Geocoding_fetchDone(r, outcome) ==
    /\ task[r].pc = "geoFetch"
    /\ LET t == task[r]
           cacheKey == geoCacheKey(t.city)
           st == storage["geocoding"]
           isTool == t.kind = "tool"
       IN  CASE outcome = "ok" ->
                  /\ storage' = [storage EXCEPT !["geocoding"] =
                         setStorage("geocoding", st, cacheKey, Coordinates, 0, now)]
                  /\ SetTask(r, IF isTool
                         THEN [t EXCEPT !.pc = "weatherFetch", !.startedAt = now,
                                 !.events = t.events \o <<"geocoding:store">> \o getWeatherDataStart]
                         ELSE [t EXCEPT !.pc = "done", !.result = "resolved:value",
                                 !.events = Append(t.events, "geocoding:store")])
             [] outcome = "empty" ->
                  /\ storage' = [storage EXCEPT !["geocoding"] =
                         setStorage("geocoding", st, cacheKey, NULL, NegativeTtl, now)]
                  /\ SetTask(r, [t EXCEPT !.pc = "done",
                         !.result = IF isTool THEN "cityNotFoundText" ELSE "resolved:null",
                         !.events = Append(t.events, "geocoding:store:negative")])
             [] OTHER ->
                  /\ UNCHANGED storage
                  /\ SetTask(r, [t EXCEPT !.pc = "done", !.msg = fetchError(outcome),
                         !.result = IF isTool THEN userMessage(fetchError(outcome))
                                    ELSE "rejected"])
    /\ UNCHANGED <<clockVars, healthVars, processVars, hits, misses, limiterVars, modules, lastOp>>

\* weatherService.getWeatherData(location) called directly, up to its first await
Weather_getWeatherData(r) ==
    /\ Free(r)
    /\ SetTask(r, [IdleTask EXCEPT !.kind = "weather", !.pc = "weatherFetch",
                                   !.startedAt = now,
                                   !.events = getWeatherDataStart])
    /\ UNCHANGED <<clockVars, healthVars, processVars, cacheVars, limiterVars, modules, lastOp>>

\* The awaited fetch of the weather call settles: an OK response goes on to the read
\* of its body, past clearTimeout; the abort of the timer is a timeout error
Weather_fetchDone(r, outcome) ==
    /\ task[r].pc = "weatherFetch"
    /\ outcome \in HeaderOutcomes
    /\ IF outcome = "timeout"
       THEN now >= task[r].startedAt + requestTimeout
       ELSE now <= task[r].startedAt + requestTimeout
    /\ LET t == task[r]
           isTool == t.kind = "tool"
       IN  IF outcome = "ok"
           THEN SetTask(r, [t EXCEPT !.pc = "weatherBody"])
           ELSE SetTask(r, [t EXCEPT !.pc = "done", !.msg = fetchError(outcome),
                    !.startedAt = 0,
                    !.result = IF isTool THEN userMessage(fetchError(outcome))
                               ELSE "rejected"])
    /\ UNCHANGED <<clockVars, healthVars, processVars, cacheVars, limiterVars, modules, lastOp>>

\* The awaited response.json() settles: the data is validated and returned, nothing
\* is stored
Weather_bodyDone(r, outcome) ==
    /\ task[r].pc = "weatherBody"
    /\ outcome \in BodyOutcomes
    /\ LET t == task[r]
           isTool == t.kind = "tool"
       IN  IF outcome = "ok"
           THEN SetTask(r, [t EXCEPT !.pc = "done", !.startedAt = 0,
                    !.result = IF isTool THEN "weatherText" ELSE "resolved:value"])
           ELSE SetTask(r, [t EXCEPT !.pc = "done", !.msg = fetchError(outcome),
                    !.startedAt = 0,
                    !.result = IF isTool THEN userMessage(fetchError(outcome))
                               ELSE "rejected"])
    /\ UNCHANGED <<clockVars, healthVars, processVars, cacheVars, limiterVars, modules, lastOp>>

-----------------------------------------------------------------------------
(* Actions: HealthMonitor *)

\* The clock may not pass the abort of the probes of a run that awaits them, and the
\* rest of a run, which awaits nothing pending, takes no time
ProbesAllow(d) ==
    \A h \in HealthRuns :
        /\ run[h].pc = "probing" => now + d <= run[h].startedAt + ProbeTimeout
        /\ run[h].pc /= "reduced"

TickHealth ==
    /\ \E d \in HealthDeltas : ProbesAllow(d) /\ Advance(d, MaxHealthTicks)
    /\ UNCHANGED <<cacheVars, limiterVars, toolVars, healthVars, processVars, lastOp>>

\* getHealthStatus up to the await of the two probes: the memory and the cache check
HealthBegin(h, memoryPercentage) ==
    /\ ~exited
    /\ run' = [run EXCEPT ![h] =
                  [pc |-> "probing",
                   checks |-> <<checkMemory(memoryPercentage),
                                checkCacheHealth(getStats("geocoding", CacheState("geocoding"), now),
                                                 getStats("weather", CacheState("weather"), now))>>,
                   status |-> "",
                   startedAt |-> now,
                   probes |-> NoProbes,
                   metrics |-> NoMetrics]]
    /\ UNCHANGED <<healthStatus, errorCount, lastErrorTime, completed>>
    /\ UNCHANGED <<clockVars, cacheVars, limiterVars, toolVars, processVars, lastOp>>

\* A caller asks for the full health status, one call at a time
Health_getHealthStatus(memoryPercentage) ==
    /\ run["demand"].pc \notin {"probing", "reduced"}
    /\ HealthBegin("demand", memoryPercentage)

\* The setInterval callback of startPeriodicHealthChecks, once per period, whatever
\* the state of the run the previous callback started
Health_periodic(memoryPercentage) ==
    /\ "healthMonitor" \in timers
    /\ now >= PeriodicInterval
    /\ now % PeriodicInterval = 0
    /\ run["periodic"].pc = "idle" \/ run["periodic"].startedAt /= now
    /\ HealthBegin("periodic", memoryPercentage)

\* Both probes have settled: the three remaining checks, the reduction, and the
\* metrics, up to the await of getSystemMetrics
Health_probesSettled(h, setup, geocodingProbe, weatherProbe, missingModules) ==
    /\ ~exited
    /\ run[h].pc = "probing"
    /\ LET checks == run[h].checks
                     \o laterChecks(setup, geocodingProbe, weatherProbe, missingModules)
       IN  run' = [run EXCEPT ![h] =
                      [@ EXCEPT !.pc = "reduced", !.checks = checks,
                                !.status = overallStatus(checks),
                                !.probes = [setup |-> setup, geocoding |-> geocodingProbe,
                                            weather |-> weatherProbe],
                                !.metrics = getSystemMetrics(errorCount, lastErrorTime,
                                                             requestCount, now)]]
    /\ UNCHANGED <<healthStatus, errorCount, lastErrorTime, completed>>
    /\ UNCHANGED <<clockVars, cacheVars, limiterVars, toolVars, processVars, lastOp>>

\* Mutant: completing a run also restarts the error counter
Health_publish_resetsErrors(h) ==
    /\ ~exited
    /\ run[h].pc = "reduced"
    /\ healthStatus' = newHealthStatus(run[h].status, healthStatus)
    /\ completed' = run[h].status
    /\ run' = [run EXCEPT ![h] = [@ EXCEPT !.pc = "done"]]
    /\ lastOp' = Op("getHealthStatus", "healthMonitor", h,
                    [status |-> run[h].status, checks |-> run[h].checks,
                     metrics |-> run[h].metrics], NoError)
    /\ errorCount' = 0
    /\ UNCHANGED lastErrorTime
    /\ UNCHANGED <<clockVars, cacheVars, limiterVars, toolVars, processVars>>

\* The rest of getHealthStatus: the update of healthStatus and the return
Health_publish(h) ==
    /\ ~exited
    /\ run[h].pc = "reduced"
    /\ healthStatus' = newHealthStatus(run[h].status, healthStatus)
    /\ completed' = run[h].status
    /\ run' = [run EXCEPT ![h] = [@ EXCEPT !.pc = "done"]]
    /\ lastOp' = Op("getHealthStatus", "healthMonitor", h,
                    [status |-> run[h].status, checks |-> run[h].checks,
                     metrics |-> run[h].metrics], NoError)
    /\ UNCHANGED <<errorCount, lastErrorTime>>
    /\ UNCHANGED <<clockVars, cacheVars, limiterVars, toolVars, processVars>>

Health_getQuickHealth ==
    /\ ~exited
    /\ lastOp' = Op("getQuickHealth", "healthMonitor", "", [status |-> healthStatus], NoError)
    /\ UNCHANGED <<clockVars, healthVars, processVars, cacheVars, limiterVars, toolVars>>

Health_recordError ==
    /\ ~exited
    /\ errorCount < MaxErrors
    /\ errorCount' = errorCount + 1
    /\ lastErrorTime' = now
    /\ lastOp' = Op("recordError", "healthMonitor", "", Count(errorCount + 1), NoError)
    /\ UNCHANGED <<healthStatus, run, completed>>
    /\ UNCHANGED <<clockVars, cacheVars, limiterVars, toolVars, processVars>>

TickErrors ==
    /\ \E d \in ErrorDeltas : ProbesAllow(d) /\ Advance(d, MaxErrorTicks)
    /\ UNCHANGED <<cacheVars, limiterVars, toolVars, healthVars, processVars, lastOp>>

TickPeriodic ==
    /\ \E d \in PeriodicDeltas : ProbesAllow(d) /\ Advance(d, MaxPeriodicTicks)
    /\ UNCHANGED <<cacheVars, limiterVars, toolVars, healthVars, processVars, lastOp>>

(* Actions: PerformanceMonitor *)

\* recordMetrics, at the end of every tracked request
Performance_recordMetrics ==
    /\ ~exited
    /\ requestCount < MaxRequests
    /\ requestCount' = requestCount + 1
    /\ UNCHANGED <<timers, exited, env, serverConfig>>
    /\ UNCHANGED <<clockVars, cacheVars, limiterVars, toolVars, healthVars, lastOp>>

(* Actions: configuration *)

\* The module config/index.ts is loaded: new ConfigManager()
Config_construct ==
    /\ serverConfig.state = "none"
    /\ serverConfig' = ConfigManager(env)
    /\ lastOp' = Op("ConfigManager", "config", "", Value(NULL), ConfigManager(env).threw)
    /\ UNCHANGED <<requestCount, timers, exited, env>>
    /\ UNCHANGED <<clockVars, cacheVars, limiterVars, toolVars, healthVars>>

\* A consumer reads the settings of the exported instance
Config_getWeatherSettings ==
    /\ serverConfig.state = "constructed"
    /\ lastOp' = Op("getWeatherSettings", "config", "",
                    [forecastDays |-> serverConfig.settings.weatherForecastDays,
                     requestTimeout |-> serverConfig.settings.requestTimeoutMs], NoError)
    /\ UNCHANGED <<clockVars, cacheVars, limiterVars, toolVars, healthVars, processVars>>

Config_getApiUrls ==
    /\ serverConfig.state = "constructed"
    /\ lastOp' = Op("getApiUrls", "config", "",
                    [geocoding |-> serverConfig.settings.geocodingApiUrl,
                     weather |-> serverConfig.settings.weatherApiUrl], NoError)
    /\ UNCHANGED <<clockVars, cacheVars, limiterVars, toolVars, healthVars, processVars>>

(* Actions: timers and the process *)

TickShutdown ==
    /\ \E d \in HealthDeltas : ProbesAllow(d) /\ Advance(d, MaxShutdownTicks)
    /\ UNCHANGED <<cacheVars, limiterVars, toolVars, healthVars, processVars, lastOp>>

\* The setInterval callback of Cache.startCleanup
Timer_cacheCleanup(c) ==
    /\ ~exited
    /\ c \in timers
    /\ Cache_cleanup(c)

\* The setInterval callback at the end of utils/rate-limiter.ts
Timer_limiterCleanup ==
    /\ ~exited
    /\ "rateLimiter" \in timers
    /\ RateLimiter_cleanup

\* Cache.destroy: clearInterval, then clear()
Cache_destroy(c) ==
    /\ ~exited
    /\ timers' = timers \ {c}
    /\ storage' = [storage EXCEPT ![c] = <<>>]
    /\ lastOp' = Op("destroy", c, "", Value(NULL), NoError)
    /\ UNCHANGED <<requestCount, exited, env, serverConfig>>
    /\ UNCHANGED <<clockVars, hits, misses, limiterVars, toolVars, healthVars>>

\* The SIGTERM and SIGINT handlers of the server: log the quick health, then
\* process.exit(0)
Process_shutdown(signal) ==
    /\ ~exited
    /\ exited' = TRUE
    /\ lastOp' = Op(signal, "process", "", [status |-> healthStatus], NoError)
    /\ UNCHANGED <<requestCount, timers, env, serverConfig>>
    /\ UNCHANGED <<clockVars, cacheVars, limiterVars, toolVars, healthVars>>

-----------------------------------------------------------------------------
(* Specifications *)

\* The values process.env can give to the variables the configuration reads
EnvUrls == {"unset", "", "http://localhost:8080/v1", "not a url"}
EnvDays == {"unset", "0", "1", "16", "17", "2.5", "abc"}
Envs ==
    [GEOCODING_API_URL : EnvUrls, WEATHER_API_URL : EnvUrls, WEATHER_FORECAST_DAYS : EnvDays]

\* The modules are loaded in a default environment
InitState ==
    /\ now = 0
    /\ ticks = 0
    /\ storage = [c \in Caches |-> <<>>]
    /\ hits = [c \in Caches |-> 0]
    /\ misses = [c \in Caches |-> 0]
    /\ requests = <<>>
    /\ admitted = [k \in LimiterKeys |-> <<>>]
    /\ modules = {}
    /\ task = [r \in Tasks |-> IdleTask]
    /\ healthStatus = "healthy"
    /\ errorCount = 0
    /\ lastErrorTime = 0
    /\ run = [h \in HealthRuns |-> IdleRun]
    /\ completed = "none"
    /\ requestCount = 0
    /\ timers = Timers
    /\ exited = FALSE
    /\ lastOp = [op |-> "init", on |-> "", key |-> "", at |-> 0, res |-> Value(NULL),
                 threw |-> NoError]

Init ==
    /\ InitState
    /\ env = DefaultEnv
    /\ serverConfig = ConfigManager(DefaultEnv)

\* The process starts in any environment; the configuration module is not yet loaded
InitConfig ==
    /\ InitState
    /\ env \in Envs
    /\ serverConfig = NotConstructed

\* The configuration singleton: its construction and the reads of its consumers
NextConfig ==
    \/ Config_construct
    \/ Config_getWeatherSettings
    \/ Config_getApiUrls

SpecConfig == InitConfig /\ [][NextConfig]_vars

\* The cache API exercised on one instance (the size-2 cache of the test suite)
NextCache ==
    \/ TickCache
    \/ \E k \in Keys, v \in Data, ttl \in Ttls : Cache_set("small", k, v, ttl)
    \/ \E k \in Keys : Cache_get("small", k)
    \/ \E k \in Keys : Cache_has("small", k)
    \/ \E k \in Keys : Cache_delete("small", k)
    \/ Cache_clear("small")
    \/ Cache_cleanup("small")
    \/ Cache_getStats("small")

SpecCache == Init /\ [][NextCache]_vars

\* Reads, sweeps and statistics of the same cache among writes of two keys
NextReads ==
    \/ TickCache
    \/ \E k \in MaintenanceKeys, ttl \in Ttls : Cache_set("small", k, "v1", ttl)
    \/ \E k \in MaintenanceKeys : Cache_get("small", k)
    \/ \E k \in MaintenanceKeys : Cache_has("small", k)
    \/ Cache_cleanup("small")
    \/ Cache_getStats("small")

SpecReads == Init /\ [][NextReads]_vars

\* checkLimit alone, each key with its one configuration
NextWindow ==
    \/ TickLimiter
    \/ \E key \in ApiKeys : RateLimiter_checkLimit(key, LimitConfig(key))

SpecWindow == Init /\ [][NextWindow]_vars

\* checkLimit together with the periodic cleanup
NextLimiter ==
    \/ TickLimiter
    \/ \E key \in ApiKeys : RateLimiter_checkLimit(key, LimitConfig(key))
    \/ RateLimiter_cleanup

SpecLimiter == Init /\ [][NextLimiter]_vars

\* checkLimit with any configuration on each call, together with the cleanup
NextConfigs ==
    \/ TickLimiter
    \/ \E key \in ConfigKeys, config \in Configs : RateLimiter_checkLimit(key, config)
    \/ RateLimiter_cleanup

SpecConfigs == Init /\ [][NextConfigs]_vars

\* The two maintenance sweeps, Cache.cleanup and RateLimiter.cleanup, among writes
NextMaintenance ==
    \/ TickMaintenance
    \/ \E k \in MaintenanceKeys : Cache_set("small", k, "v1", 100)
    \/ Cache_cleanup("small")
    \/ \E key \in ConfigKeys, config \in Configs : RateLimiter_checkLimit(key, config)
    \/ RateLimiter_cleanup

SpecMaintenance == Init /\ [][NextMaintenance]_vars

\* The request path: get_weather invocations, direct calls of the two services, and
\* writes to the geocoding cache through its exported instance
NextRequest ==
    \/ TickTool
    \/ \E city \in Cities : Tool_invoke("t1", city)
    \/ \E ok \in BOOLEAN : Tool_loaded("t1", ok)
    \/ \E city \in Cities \ {""} : Geocoding_getCoordinates("t1", city)
    \/ Weather_getWeatherData("t1")
    \/ \E outcome \in HeaderOutcomes : Weather_fetchDone("t1", outcome)
    \/ \E outcome \in BodyOutcomes : Weather_bodyDone("t1", outcome)
    \/ \E v \in {NULL, Coordinates} :
          Cache_set("geocoding", geoCacheKey("Madrid"), v, IF v = NULL THEN NegativeTtl ELSE 0)

SpecRequest == Init /\ [][NextRequest]_vars

\* Concurrent get_weather invocations, interleaved at their awaits
NextConcurrent ==
    \/ TickTool
    \/ \E r \in Tasks : Tool_invoke(r, "Madrid")
    \/ \E r \in Tasks, ok \in BOOLEAN : Tool_loaded(r, ok)

SpecConcurrent == Init /\ [][NextConcurrent]_vars

\* Direct calls of the weather service, two at a time, on a clock that stops at the
\* deadline of every armed abort timer
NextUpstream ==
    \/ TickUpstream
    \/ \E r \in Tasks : Weather_getWeatherData(r)
    \/ \E r \in Tasks, outcome \in HeaderOutcomes : Weather_fetchDone(r, outcome)
    \/ \E r \in Tasks, outcome \in BodyOutcomes : Weather_bodyDone(r, outcome)

SpecUpstream == Init /\ [][NextUpstream]_vars

\* The health monitor: full checks on demand and by the timer, quick reads, errors
NextHealth ==
    \/ TickHealth
    \/ \E m \in {50, 65, 81} : Health_getHealthStatus(m)
    \/ \E m \in {50, 65, 81} : Health_periodic(m)
    \/ \E h \in HealthRuns, g \in {"resolved:200", "rejected"},
          w \in {"resolved:200", "rejected"}, missing \in SUBSET criticalModules :
          Health_probesSettled(h, "started", g, w, missing)
    \/ \E h \in HealthRuns : Health_publish(h)
    \/ Health_getQuickHealth

SpecHealth == Init /\ [][NextHealth]_vars

\* One full check at a time, over every outcome of each of its five checks
NextProbes ==
    \/ \E m \in MemoryPercentages : Health_getHealthStatus(m)
    \/ \E g \in ProbeOutcomes, w \in ProbeOutcomes, missing \in SUBSET criticalModules :
          Health_probesSettled("demand", "started", g, w, missing)
    \/ \E missing \in SUBSET criticalModules :
          Health_probesSettled("demand", "threw", "", "", missing)
    \/ Health_publish("demand")
    \/ Health_getQuickHealth

SpecProbes == Init /\ [][NextProbes]_vars

\* Errors and tracked requests among full checks on demand
NextErrors ==
    \/ TickErrors
    \/ Health_recordError
    \/ Performance_recordMetrics
    \/ Health_getHealthStatus(50)
    \/ Health_probesSettled("demand", "started", "resolved:200", "resolved:200", {})
    \/ Health_publish("demand")

SpecErrors == Init /\ [][NextErrors]_vars

\* Full checks, on demand and by the timer, while the caches, the rate limiter and
\* the error counter are in use
NextFrame ==
    \/ TickHealth
    \/ Cache_set("geocoding", "a", "v1", 0)
    \/ RateLimiter_checkLimit("x", LimitConfig("x"))
    \/ Health_recordError
    \/ Health_getHealthStatus(50)
    \/ Health_periodic(50)
    \/ \E h \in HealthRuns :
          Health_probesSettled(h, "started", "rejected", "resolved:200", {})
    \/ \E h \in HealthRuns : Health_publish(h)

SpecFrame == Init /\ [][NextFrame]_vars

\* The background timers of the server process and its shutdown on a signal
NextShutdown ==
    \/ TickShutdown
    \/ \E k \in MaintenanceKeys : ~exited /\ Cache_set("weather", k, "v1", 100)
    \/ ~exited /\ RateLimiter_checkLimit("x", LimitConfig("x"))
    \/ \E c \in {"geocoding", "weather"} : Timer_cacheCleanup(c)
    \/ Timer_limiterCleanup
    \/ Health_periodic(50)
    \/ \E g \in {"resolved:200", "rejected"} :
          Health_probesSettled("periodic", "started", g, g, {})
    \/ Health_publish("periodic")
    \/ \E c \in {"geocoding", "weather"} : Cache_destroy(c)
    \/ \E signal \in Signals : Process_shutdown(signal)

SpecShutdown == Init /\ [][NextShutdown]_vars

\* The periodic tasks on their timers: the sweep of a cache, the cleanup of the
\* limiter and the full health check with its probes
NextPeriodic ==
    \/ TickPeriodic
    \/ Cache_set("geocoding", "a", "v1", 100)
    \/ Timer_cacheCleanup("geocoding")
    \/ Timer_limiterCleanup
    \/ Health_periodic(50)
    \/ \E g \in ProbeOutcomes, w \in ProbeOutcomes :
          Health_probesSettled("periodic", "started", g, w, {})
    \/ Health_publish("periodic")

SpecPeriodic == Init /\ [][NextPeriodic]_vars

-----------------------------------------------------------------------------
(* Observations used by the properties *)

\* The step just taken completed a call of `name` (a clock advance changes now;
\* every call records itself in lastOp)
Called(name) == now' = now /\ lastOp'.op = name

\* Number of admitted calls for key with time in the half-open interval (T - w, T]
AdmittedIn(key, T) ==
    Cardinality({i \in 1..Len(admitted[key]) :
                    /\ admitted[key][i] > T - LimitConfig(key).windowMs
                    /\ admitted[key][i] <= T})

EntryOf(st, k) == st[IndexOf(st, k, 1)]

MinTimestamp(st) ==
    CHOOSE m \in {st[i].timestamp : i \in 1..Len(st)} :
        \A i \in 1..Len(st) : m <= st[i].timestamp

-----------------------------------------------------------------------------
(* Properties *)

\* C1: after any set call has completed the cache holds at most maxSize entries,
\* whatever the clock values of the calls (several calls may share one value).
C1_CapacityAfterSet ==
    lastOp.op = "set" => Len(storage[lastOp.on]) <= CacheConfig(lastOp.on).maxSize

\* C2: for a key checked with one fixed config, no half-open interval (T - windowMs, T]
\* holds more than maxRequests admitted calls. The count over an interval is largest
\* when T is the time of an admitted call (or now), so these T are the ones checked.
C2_SlidingWindowBound ==
    \A key \in ApiKeys :
        \A T \in {admitted[key][i] : i \in 1..Len(admitted[key])} \cup {now} :
            AdmittedIn(key, T) <= LimitConfig(key).maxRequests

\* C2 witness: the window of key "x" has slid: more calls were admitted in total than
\* maxRequests, and a call was denied in between.
C2_Witness ==
    /\ Len(admitted["x"]) > LimitConfig("x").maxRequests
    /\ lastOp.op = "checkLimit" /\ lastOp.key = "x" /\ ~lastOp.res.allowed

\* C3: get(k) on a stored entry returns its value when now - storedAt <= ttl and
\* absent (null) when now - storedAt > ttl.
C3_RoundTripAndExpiry ==
    [][Called("get") =>
        LET st == storage[lastOp'.on]
            k == lastOp'.key
        IN  MapHas(st, k) =>
              /\ lastOp'.threw = NoError
              /\ lastOp'.res.value = IF now - EntryOf(st, k).timestamp <= EntryOf(st, k).ttl
                               THEN EntryOf(st, k).data ELSE NULL]_vars

\* C4: checkLimit at time T returns allowed=true iff fewer than maxRequests previously
\* admitted requests of the key have timestamps in (T - windowMs, T], whatever
\* cleanup runs happened before.
C4_AdmissionDecision ==
    lastOp.op = "checkLimit" =>
        LET key == lastOp.key
            n == AdmittedIn(key, lastOp.at)
            before == IF lastOp.res.allowed THEN n - 1 ELSE n
        IN  lastOp.res.allowed <=> (before < LimitConfig(key).maxRequests)

\* C5: set(k) removes another entry iff k is not stored and the cache is full; then
\* exactly one entry goes, one with the minimal stored timestamp, and the others stay
\* as they are. A set on a stored key evicts nothing and rewrites that entry with
\* stored time now.
C5_EvictionPolicy ==
    [][Called("set") =>
        LET c == lastOp'.on
            k == lastOp'.key
            st == storage[c]
            st2 == storage'[c]
            others == {i \in 1..Len(st) : st[i].key /= k}
            gone == {i \in others : ~MapHas(st2, st[i].key)}
            full == Len(st) >= CacheConfig(c).maxSize
        IN  /\ (gone /= {}) <=> (~MapHas(st, k) /\ full)
            /\ Cardinality(gone) <= 1
            /\ \A i \in gone : st[i].timestamp = MinTimestamp(st)
            /\ \A i \in others \ gone : EntryOf(st2, st[i].key) = st[i]
            /\ MapHas(st2, k) /\ EntryOf(st2, k).timestamp = now]_vars

\* C10: a denied checkLimit leaves the tracked keys and every timestamp sequence as
\* they were; an allowed one appends exactly the current time to the timestamps of
\* the key that are kept, and touches no other key.
C10_DeniedHasNoSideEffect ==
    [][Called("checkLimit") =>
        LET key == lastOp'.key
            old == MapGetOr(requests, key, <<>>)
        IN  IF ~lastOp'.res.allowed
            THEN requests' = requests /\ admitted' = admitted
            ELSE /\ DOMAIN requests' = (DOMAIN requests) \cup {key}
                 /\ \A k2 \in (DOMAIN requests) \ {key} : requests'[k2] = requests[k2]
                 /\ LET new == requests'[key]
                    IN  /\ Len(new) >= 1 /\ new[Len(new)] = now
                        /\ \E j \in 0..Len(old) :
                              SubSeq(new, 1, Len(new) - 1) = SubSeq(old, j + 1, Len(old))
                 /\ admitted'[key] = Append(admitted[key], now)]_vars

\* C10 witness: a call was denied while its key had timestamps stored
C10_Witness ==
    /\ lastOp.op = "checkLimit" /\ ~lastOp.res.allowed
    /\ lastOp.key \in DOMAIN requests /\ Len(requests[lastOp.key]) >= 1

\* Position of the first occurrence of an event in a task's trace (0: none)
RECURSIVE EventIndex(_, _, _)
EventIndex(evs, e, i) ==
    IF i > Len(evs) THEN 0
    ELSE IF evs[i] = e THEN i
    ELSE EventIndex(evs, e, i + 1)

HasEvent(evs, e) == EventIndex(evs, e, 1) /= 0

Apis == {"geocoding", "weather"}
Ev(api, what) ==
    CASE api = "geocoding" /\ what = "miss"     -> "geocoding:lookup:miss"
      [] api = "geocoding" /\ what = "allowed"  -> "geocoding:limit:allowed"
      [] api = "geocoding" /\ what = "denied"   -> "geocoding:limit:denied"
      [] api = "geocoding" /\ what = "upstream" -> "geocoding:upstream"
      [] api = "geocoding" /\ what = "store"    -> "geocoding:store"
      [] api = "weather" /\ what = "miss"       -> "weather:lookup:miss"
      [] api = "weather" /\ what = "allowed"    -> "weather:limit:allowed"
      [] api = "weather" /\ what = "denied"     -> "weather:limit:denied"
      [] api = "weather" /\ what = "upstream"   -> "weather:upstream"
      [] api = "weather" /\ what = "store"      -> "weather:store"

\* C7: a getCoordinates call made while the geocoding cache holds a live negative
\* entry for the city (stored less than 30 minutes ago) returns null, without a
\* geocoding rate-limit check and without an upstream request.
C7_NegativeCaching ==
    \A r \in Tasks :
        task[r].negCached =>
            /\ task[r].pc = "done"
            /\ task[r].result \in {"resolved:null", "cityNotFoundText"}
            /\ ~HasEvent(task[r].events, Ev("geocoding", "allowed"))
            /\ ~HasEvent(task[r].events, Ev("geocoding", "denied"))
            /\ ~HasEvent(task[r].events, Ev("geocoding", "upstream"))

\* C8: every upstream call of a request comes after a miss in that API's cache and
\* then an allowed rate-limit check for that API, and a successful upstream result is
\* stored in that cache before the request returns it.
C8_RequestPathOrdering ==
    \A r \in Tasks : \A api \in Apis :
        LET evs == task[r].events
            up == EventIndex(evs, Ev(api, "upstream"), 1)
            miss == EventIndex(evs, Ev(api, "miss"), 1)
            ok == EventIndex(evs, Ev(api, "allowed"), 1)
        IN  up /= 0 =>
              /\ miss /= 0 /\ ok /= 0 /\ miss < ok /\ ok < up
              /\ (task[r].pc = "done" /\ task[r].result \in {"resolved:value", "weatherText"})
                    => HasEvent(evs, Ev(api, "store"))

\* C9: an invocation denied at tool level ends at once with the rate-limit text and
\* the wait in seconds; it looks up no cache, checks no other limit, calls no upstream
\* API and changes no cache or limiter state. Any invocation that got further was
\* admitted at tool level first.
C9_ToolAdmissionOutermost ==
    [][\A r \in Tasks :
          LET t == task'[r]
          IN  t.kind = "tool" =>
                /\ HasEvent(t.events, "tool:limit:denied") =>
                      /\ t.pc = "done" /\ t.result = "toolRateLimitText"
                      /\ t.events = <<"tool:limit:denied">>
                      /\ t.retryAfter >= 1
                      /\ t.retryAfter <= CeilSeconds(RATE_LIMITS.TOOL_USAGE.windowMs)
                /\ (t /= task[r] /\ t.result = "toolRateLimitText") =>
                      UNCHANGED <<cacheVars, requests, admitted, modules>>
                /\ Len(t.events) > 1 => t.events[1] = "tool:limit:allowed"]_vars

\* C9 witness: an invocation was denied at tool level
C9_Witness ==
    \E r \in Tasks : task[r].kind = "tool" /\ task[r].result = "toolRateLimitText"

\* C6: every completed getHealthStatus run reports 'unhealthy' iff at least one of its
\* five checks is 'fail', 'degraded' iff none is 'fail' and at least two are 'warn',
\* and 'healthy' otherwise.
C6_HealthReduction ==
    \A h \in HealthRuns :
        run[h].pc = "done" =>
            LET f == CountStatus(run[h].checks, "fail", 1)
                w == CountStatus(run[h].checks, "warn", 1)
            IN  /\ Len(run[h].checks) = 5
                /\ run[h].status \in {"healthy", "degraded", "unhealthy"}
                /\ run[h].status = "unhealthy" <=> f >= 1
                /\ run[h].status = "degraded" <=> (f = 0 /\ w >= 2)
                /\ run[h].status = "healthy" <=> (f = 0 /\ w <= 1)

\* C6 witness: one completed run with no fail and exactly one warn, another with no
\* fail and two warns
C6_Witness ==
    /\ run["demand"].pc = "done"
    /\ CountStatus(run["demand"].checks, "fail", 1) = 0
    /\ CountStatus(run["demand"].checks, "warn", 1) = 1
    /\ run["periodic"].pc = "done"
    /\ CountStatus(run["periodic"].checks, "fail", 1) = 0
    /\ CountStatus(run["periodic"].checks, "warn", 1) = 2

\* The timestamps stored for the key of the last checkLimit call, and those of them
\* inside the window of that call
StoredOfLast == MapGetOr(requests, lastOp.key, <<>>)
InWindowOfLast ==
    SelectSeq(StoredOfLast, LAMBDA time : time > lastOp.at - lastOp.res.config.windowMs)
Oldest(times) ==
    CHOOSE m \in {times[i] : i \in 1..Len(times)} : \A i \in 1..Len(times) : m <= times[i]

\* C11: a denied checkLimit reports retryAfter = ceil((oldest in-window timestamp +
\* windowMs - now) / 1000) and resetTime = oldest in-window timestamp + windowMs, with
\* retryAfter a finite integer from 1 to ceil(windowMs / 1000), for every config with
\* maxRequests >= 0.
C11_RetryAfterOnDenial ==
    (lastOp.op = "checkLimit" /\ ~lastOp.res.allowed) =>
        /\ lastOp.res.finite
        /\ Len(InWindowOfLast) >= 1
        /\ lastOp.res.resetTime = Oldest(InWindowOfLast) + lastOp.res.config.windowMs
        /\ lastOp.res.retryAfter =
              CeilSeconds(Oldest(InWindowOfLast) + lastOp.res.config.windowMs - lastOp.at)
        /\ lastOp.res.retryAfter >= 1
        /\ lastOp.res.retryAfter <= CeilSeconds(lastOp.res.config.windowMs)

\* C12: an allowed checkLimit reports remaining = maxRequests minus the number of
\* in-window timestamps of the key once the current one is appended, from 0 to
\* maxRequests - 1; a denied one reports remaining = 0.
C12_RemainingCount ==
    lastOp.op = "checkLimit" =>
        IF lastOp.res.allowed
        THEN /\ Len(StoredOfLast) >= 1 /\ StoredOfLast[Len(StoredOfLast)] = lastOp.at
             /\ lastOp.res.remaining = lastOp.res.config.maxRequests - Len(InWindowOfLast)
             /\ lastOp.res.remaining >= 0
             /\ lastOp.res.remaining <= lastOp.res.config.maxRequests - 1
        ELSE lastOp.res.remaining = 0

\* C12 witness: a call was admitted into a window that already held a request and
\* used the last slot
C12_Witness ==
    /\ lastOp.op = "checkLimit" /\ lastOp.res.allowed
    /\ Len(InWindowOfLast) = 2 /\ lastOp.res.remaining = 0

\* C19: right after any checkLimit(key, config) call, allowed or denied, every
\* timestamp stored for the key is > now - config.windowMs and the stored sequence is
\* ascending, also when the key is checked with different configs.
C19_RateWindowInvariant ==
    (lastOp.op = "checkLimit" /\ lastOp.at = now) =>
        /\ \A i \in 1..Len(StoredOfLast) :
              StoredOfLast[i] > now - lastOp.res.config.windowMs
        /\ \A i \in 1..Len(StoredOfLast), j \in 1..Len(StoredOfLast) :
              i < j => StoredOfLast[i] <= StoredOfLast[j]

\* C20: RateLimiter.cleanup() at time t leaves no timestamp <= t - 300000, stops
\* tracking every key whose timestamps were all that old, and keeps every newer
\* timestamp of every other key, in order.
C20_IdleKeysDropped ==
    [][Called("limiterCleanup") =>
        /\ DOMAIN requests' \subseteq DOMAIN requests
        /\ \A k \in DOMAIN requests :
              LET newer == SelectSeq(requests[k], LAMBDA time : time > now - 300000)
              IN  IF newer = <<>> THEN k \notin DOMAIN requests'
                  ELSE k \in DOMAIN requests' /\ requests'[k] = newer
        /\ \A k \in DOMAIN requests' : \A i \in 1..Len(requests'[k]) :
              requests'[k][i] > now - 300000]_vars

\* C20 witness: a cleanup has just dropped a key that had been admitted before
C20_Witness ==
    /\ lastOp.op = "limiterCleanup" /\ lastOp.at = now
    /\ \E k \in ConfigKeys : Len(admitted[k]) >= 1 /\ k \notin DOMAIN requests

\* C18: a Cache.cleanup() call that directly follows a Cache.cleanup() call on the
\* same cache, and a RateLimiter.cleanup() call that directly follows a
\* RateLimiter.cleanup() call, with the clock unchanged and no call in between, change
\* nothing.
C18_MaintenanceIdempotent ==
    [][/\ (Called("cleanup") /\ lastOp.op = "cleanup" /\ lastOp.on = lastOp'.on
              /\ lastOp.at = now)
          => UNCHANGED <<storage, hits, misses>>
       /\ (Called("limiterCleanup") /\ lastOp.op = "limiterCleanup" /\ lastOp.at = now)
          => UNCHANGED <<requests, admitted>>]_vars

\* C18 witness: both sweeps have run after the clock moved; the limiter's dropped a
\* key, the cache's was the last call and left an entry
C18_Witness ==
    /\ lastOp.op = "cleanup" /\ lastOp.at = now /\ now > 0
    /\ Len(storage[lastOp.on]) >= 1
    /\ \E k \in ConfigKeys : Len(admitted[k]) >= 1 /\ k \notin DOMAIN requests

\* A value came back from the get or has call just completed
ValueReturned ==
    /\ lastOp'.threw = NoError
    /\ IF lastOp'.op = "get" THEN lastOp'.res.value /= NULL ELSE lastOp'.res.flag

\* The entry of the key just read is stored and its age exceeds its ttl
ReadOfExpired ==
    /\ MapHas(storage[lastOp'.on], lastOp'.key)
    /\ now - EntryOf(storage[lastOp'.on], lastOp'.key).timestamp
          > EntryOf(storage[lastOp'.on], lastOp'.key).ttl

\* C13: get(k) on a stored entry with now - storedAt > ttl returns absent and removes
\* exactly that entry; get on a live or missing key removes nothing.
C13_ExpireOnRead ==
    [][Called("get") =>
        IF ReadOfExpired
        THEN /\ lastOp'.threw = NoError /\ lastOp'.res.value = NULL
             /\ storage'[lastOp'.on] = MapDelete(storage[lastOp'.on], lastOp'.key)
             /\ Len(storage'[lastOp'.on]) = Len(storage[lastOp'.on]) - 1
        ELSE storage'[lastOp'.on] = storage[lastOp'.on]]_vars

\* C14: every get(k) and has(k) call registers one observation, a hit when a value is
\* returned and a miss otherwise, and then applies the halving rule; no other call
\* changes hits or misses.
C14_HitMissAccounting ==
    [][IF Called("get") \/ Called("has")
       THEN LET c == lastOp'.on
                h == hits[c] + (IF ValueReturned THEN 1 ELSE 0)
                m == misses[c] + (IF ValueReturned THEN 0 ELSE 1)
            IN  /\ hits'[c] = IF h + m > maxStats THEN h \div 2 ELSE h
                /\ misses'[c] = IF h + m > maxStats THEN m \div 2 ELSE m
       ELSE hits' = hits /\ misses' = misses]_vars

C16_EvictionOrderByWrite ==
    [][(Called("get") \/ Called("has")) /\ ~ReadOfExpired =>
        LET st == storage[lastOp'.on]
            st2 == storage'[lastOp'.on]
        IN  /\ Len(st2) = Len(st)
            /\ \A i \in 1..Len(st) :
                  /\ st2[i].key = st[i].key
                  /\ st2[i].timestamp = st[i].timestamp
                  /\ st2[i].ttl = st[i].ttl
            /\ \A t \in {now, now + 100} :
                  evictScan(st2, 1, "", t) = evictScan(st, 1, "", t)]_vars

\* C16 witness: a live entry of a full cache, not the oldest one, has just been read
C16_Witness ==
    /\ lastOp.op \in {"get", "has"} /\ lastOp.at = now
    /\ Len(storage[lastOp.on]) >= CacheConfig(lastOp.on).maxSize
    /\ MapHas(storage[lastOp.on], lastOp.key)
    /\ now - EntryOf(storage[lastOp.on], lastOp.key).timestamp
          <= EntryOf(storage[lastOp.on], lastOp.key).ttl
    /\ EntryOf(storage[lastOp.on], lastOp.key).timestamp > MinTimestamp(storage[lastOp.on])

\* C17: Cache.cleanup() at time t removes every entry with t - storedAt > ttl and no
\* other; right afterwards getStats().expiredEntries is 0 and the entries left are
\* unchanged and in their order.
C17_Sweep ==
    [][Called("cleanup") =>
        LET c == lastOp'.on
            live == SelectSeq(storage[c], LAMBDA e : now - e.timestamp <= e.ttl)
        IN  /\ storage'[c] = live
            /\ getStats(c, [storage |-> storage'[c], hits |-> hits'[c],
                            misses |-> misses'[c]], now).expiredEntries = 0
            /\ hits' = hits /\ misses' = misses]_vars

\* C17 witness: a sweep has just removed an entry and kept one whose age equals its ttl
C17_Witness ==
    /\ lastOp.op = "cleanup" /\ lastOp.at = now /\ lastOp.res.count >= 1
    /\ \E i \in 1..Len(storage[lastOp.on]) :
          now - storage[lastOp.on][i].timestamp = storage[lastOp.on][i].ttl

\* The status getQuickHealth has to report: that of the run completed last, or the
\* initial 'healthy'
LastComputedStatus == IF completed = "none" THEN "healthy" ELSE completed

\* C21: getQuickHealth returns the overall status computed by the getHealthStatus run
\* that completed last, on demand or periodic, in whatever order the runs interleave,
\* or 'healthy' if none has completed; it runs no check and changes no state.
C21_QuickHealth ==
    [][(lastOp' /= lastOp /\ lastOp'.op = "getQuickHealth") =>
          /\ lastOp'.res.status = LastComputedStatus
          /\ UNCHANGED <<clockVars, cacheVars, limiterVars, toolVars, healthVars,
                         processVars>>]_vars

\* C21 witness: a quick read between two overlapping runs reports the status of the one
\* that has completed, while the other has computed a different status and not yet
\* returned, and the status stored before was different again
C21_Witness ==
    /\ lastOp.op = "getQuickHealth"
    /\ lastOp.res.status = "healthy"
    /\ completed = "healthy"
    /\ \E h \in HealthRuns : run[h].pc = "done" /\ run[h].status = "unhealthy"
    /\ \E h \in HealthRuns : run[h].pc = "reduced" /\ run[h].status = "degraded"

\* The names of the checks of a run, in the order reported
CheckNames(h) == [i \in 1..Len(run[h].checks) |-> run[h].checks[i].name]

\* C22: whatever the two probes do (resolve with any status, reject, time out), the run
\* goes on to its end and resolves with exactly five check results, in the order
\* memory, cache, external_apis, configuration, dependencies, each with a status among
\* pass, warn and fail.
C22_FiveChecks ==
    /\ \A h \in HealthRuns :
          /\ run[h].pc = "probing" =>
                \A g \in ProbeOutcomes, w \in ProbeOutcomes :
                    ENABLED Health_probesSettled(h, "started", g, w, {})
          /\ run[h].pc = "reduced" => ENABLED Health_publish(h)
          /\ run[h].pc \in {"reduced", "done"} =>
                /\ CheckNames(h) = <<"memory", "cache", "external_apis", "configuration",
                                     "dependencies">>
                /\ \A i \in 1..5 : run[h].checks[i].status \in {"pass", "warn", "fail"}
    /\ lastOp.op = "getHealthStatus" =>
          /\ lastOp.threw = NoError
          /\ Len(lastOp.res.checks) = 5
          /\ \A i \in 1..5 : lastOp.res.checks[i].status \in {"pass", "warn", "fail"}

\* C22 witness: a run has returned after one probe timed out and the other rejected
C22_Witness ==
    /\ lastOp.op = "getHealthStatus"
    /\ run["demand"].pc = "done"
    /\ run["demand"].probes.geocoding = "timeout"
    /\ run["demand"].probes.weather = "rejected"

\* The number of probes of a run that did not resolve
RejectedProbes(h) ==
    Cardinality({api \in {"geocoding", "weather"} :
                    run[h].probes[api] \notin {"resolved:200", "resolved:500"}})

\* C23: the external_apis check is 'fail' iff both probes reject, 'warn' iff exactly one
\* rejects or the check throws before probing, 'pass' iff neither rejects, a probe that
\* resolves with any HTTP status counting as reachable; both rejecting makes the overall
\* status 'unhealthy'.
C23_ExternalApis ==
    \A h \in HealthRuns :
        run[h].pc \in {"reduced", "done"} =>
            LET threw == run[h].probes.setup = "threw"
                status == run[h].checks[3].status
            IN  /\ status = "fail" <=> (~threw /\ RejectedProbes(h) = 2)
                /\ status = "warn" <=> (threw \/ RejectedProbes(h) = 1)
                /\ status = "pass" <=> (~threw /\ RejectedProbes(h) = 0)
                /\ (~threw /\ RejectedProbes(h) = 2) => run[h].status = "unhealthy"

\* C23 witness: a run whose geocoding probe was answered with a server error and whose
\* weather probe rejected, reported as one API unreachable
C23_Witness ==
    /\ run["demand"].pc = "done"
    /\ run["demand"].probes = [setup |-> "started", geocoding |-> "resolved:500",
                               weather |-> "rejected"]
    /\ run["demand"].checks[3].status = "warn"

\* hits / (hits + misses) < 0.3 for cache c, the rate of an unread cache being 0
BelowThirty(c) == hits[c] + misses[c] = 0 \/ 10 * hits[c] < 3 * (hits[c] + misses[c])

C25_MemoryCheck ==
    \A h \in HealthRuns :
        run[h].pc /= "idle" =>
            LET ratio == run[h].checks[1].metadata.percentage
                status == run[h].checks[1].status
            IN  /\ status = "fail" <=> ratio > 80
                /\ status = "warn" <=> (64 < ratio /\ ratio <= 80)
                /\ status = "pass" <=> ratio <= 64

\* C25 witness: a run that measured a ratio of exactly 64 and passed the memory check
C25_Witness ==
    /\ run["demand"].pc = "done"
    /\ run["demand"].checks[1].metadata.percentage = 64
    /\ run["demand"].checks[1].status = "pass"

\* Two rates, each kept as numerator and denominator, are the same number
SameRate(r1, r2) == r1[1] * r2[2] = r2[1] * r1[2]

\* C26: each recordError adds exactly one to errorCount and sets lastErrorTime to the
\* current time; errorCount never decreases; the error rate a full check reports is 0
\* when the last error is more than five minutes old or no request has been observed,
\* and errorCount / (requests observed) otherwise.
C26_ErrorAccounting ==
    [][/\ (lastOp' /= lastOp /\ lastOp'.op = "recordError") =>
              /\ errorCount' = errorCount + 1
              /\ lastErrorTime' = now
       /\ errorCount' >= errorCount
       /\ \A h \in HealthRuns :
              (run[h].pc = "probing" /\ run'[h].pc = "reduced") =>
                  /\ run'[h].metrics.errors.total = errorCount
                  /\ SameRate(run'[h].metrics.errors.rate,
                              IF now - lastErrorTime > 5 * 60 * 1000 \/ requestCount = 0
                              THEN <<0, 1>>
                              ELSE <<errorCount, requestCount>>)]_vars

\* C26 witness: a full check reports one error in one request, the error being exactly
\* five minutes old
C26_Witness ==
    /\ run["demand"].pc = "done"
    /\ run["demand"].metrics.errors.rate = <<1, 1>>
    /\ errorCount = 1
    /\ now - lastErrorTime = 5 * 60 * 1000
    /\ run["demand"].startedAt = now

\* C27: every step of a getHealthStatus run, on demand or periodic and whatever its
\* result, leaves the entries and the hit and miss counters of the caches, every
\* rate-limiter window and the error counter as they were; of the monitor's fields
\* only healthStatus may change.
C27_HealthRunFrame ==
    [][run' /= run =>
          /\ UNCHANGED <<storage, hits, misses>>
          /\ UNCHANGED requests
          /\ UNCHANGED <<errorCount, lastErrorTime>>
          /\ UNCHANGED <<requestCount, modules, task, timers, exited>>]_vars

\* C27 witness: a periodic run has just returned and changed the stored status, with
\* an entry in the geocoding cache, a tracked rate-limiter key and a recorded error
C27_Witness ==
    /\ lastOp.op = "getHealthStatus" /\ lastOp.key = "periodic"
    /\ run["periodic"].pc = "done"
    /\ healthStatus = "degraded"
    /\ Len(storage["geocoding"]) > 0
    /\ requests /= <<>>
    /\ errorCount > 0

\* The timers the server process runs with
ServerTimers == {"geocoding", "weather", "rateLimiter", "healthMonitor"}

\* C28: once the SIGTERM or SIGINT handler has run, every periodic timer (both cache
\* sweep timers, the rate-limiter cleanup timer, the health polling timer) has been
\* cancelled.
C28_ShutdownCancelsTimers == exited => timers \cap ServerTimers = {}

\* The key of the call just completed is not stored, or its entry has expired
KeyMissingOrExpired == ~MapHas(storage[lastOp'.on], lastOp'.key) \/ ReadOfExpired

\* C29: Cache.get, Cache.has and Cache.delete on a missing or expired key return an
\* ordinary result (null for get, false for has, a boolean for delete) and throw
\* nothing.
C29_MissIsValue ==
    [][((Called("get") \/ Called("has") \/ Called("delete")) /\ KeyMissingOrExpired) =>
          /\ lastOp'.threw = NoError
          /\ lastOp'.op = "get" => lastOp'.res.value = NULL
          /\ lastOp'.op = "has" => lastOp'.res.flag = FALSE]_vars

\* The texts a get_weather call can resolve with
ToolTexts ==
    {"invalidCityText", "toolRateLimitText", "cityNotFoundText", "weatherText",
     "timeoutText", "connectionText", "rateLimitText", "internalErrorText"}

C33_ClearKeepsCounters ==
    [][/\ Called("clear") =>
              /\ storage'[lastOp'.on] = <<>>
              /\ hits' = hits /\ misses' = misses
       /\ (lastOp.op = "clear" /\ Called("get")) =>
              /\ lastOp'.threw = NoError
              /\ lastOp'.res.value = NULL]_vars

\* The forecast-days variable of the environment holds an integer in 1..16
\* (unset or empty, the default 1 is used)
DaysSettingValid == env.WEATHER_FORECAST_DAYS \in {"unset", "", "1", "16"}

\* The URL variable of the environment holds a well-formed absolute URL
\* (unset or empty, the default is used)
UrlSettingValid(value) == value \in {"unset", "", "http://localhost:8080/v1"}

\* C32: constructing the configuration throws whenever an API URL is not a well-formed
\* absolute URL or the forecast-days setting is not an integer in 1..16, a non-numeric
\* value included; every configuration that consumers can read has two well-formed
\* URLs and forecastDays in 1..16.
C32_ConfigFailFast ==
    /\ serverConfig.state = "constructed" =>
          /\ UrlSettingValid(env.GEOCODING_API_URL)
          /\ UrlSettingValid(env.WEATHER_API_URL)
          /\ DaysSettingValid
          /\ ~serverConfig.settings.weatherForecastDays.nan
          /\ serverConfig.settings.weatherForecastDays.n \in 1..16
    /\ lastOp.op = "getWeatherSettings" =>
          /\ ~lastOp.res.forecastDays.nan
          /\ lastOp.res.forecastDays.n \in 1..16

\* C37: with every key checked under its one configuration, no key ever has more
\* timestamps stored than its maxRequests, and no tracked key has an empty list, so
\* getStats().activeKeys <= getStats().totalTrackedRequests.
C37_BoundedWindow ==
    /\ \A k \in DOMAIN requests :
          /\ Len(requests[k]) <= LimitConfig(k).maxRequests
          /\ Len(requests[k]) >= 1
    /\ limiterGetStats(requests).activeKeys <= limiterGetStats(requests).totalTrackedRequests

\* C37 witness: a call has just been denied on a key whose list is full, while another
\* key, admitted earlier, has been dropped by the cleanup
C37_Witness ==
    /\ lastOp.op = "checkLimit" /\ lastOp.key = "x" /\ ~lastOp.res.allowed
    /\ Len(requests["x"]) = LimitConfig("x").maxRequests
    /\ Len(admitted["big"]) >= 1
    /\ "big" \notin DOMAIN requests

\* Delays, in ms, added to the earliest retry time T + 1000 * retryAfter
RetryDelays == {0, 1, 999, 1000, 300000}

C39_InvalidCityNoEffect ==
    [][\A r \in Tasks :
          (/\ Free(r)
           /\ task'[r] /= task[r]
           /\ task'[r].kind = "tool"
           /\ task'[r].city \in {"", " "})
          => /\ task'[r].pc = "done"
             /\ task'[r].result = "invalidCityText"
             /\ task'[r].events = <<>>
             /\ UNCHANGED <<cacheVars, limiterVars, modules>>]_vars

\* C39 witness: the validation error was returned for a whitespace-only city after an
\* earlier invocation had been admitted by the tool-level limiter and had loaded the
\* services
C39_Witness ==
    /\ task["t1"].kind = "tool" /\ task["t1"].pc = "done"
    /\ task["t1"].city = " "
    /\ task["t1"].result = "invalidCityText"
    /\ ToolKey \in DOMAIN requests
    /\ "weather-services" \in modules

\* C40: LazyLoader.load invokes importFn at most once per module name: while one
\* invocation awaits the import it started, no other invocation has started an import
\* of the same module.
C40_ImportAtMostOnce ==
    Cardinality({r \in Tasks : Importing(task[r])}) <= 1

InFlight(t) == t.pc \in {"weatherFetch", "weatherBody"}

\* C31: every upstream request completes no later than requestTimeout after it
\* started, the read of the response body included; a request that ends by the abort
\* of its timer fails with 'Timeout after 10s', and the completion of one call,
\* by timeout or otherwise, leaves every other call in flight as it was.
C31_UpstreamBounded ==
    [][\A r \in Tasks :
          (InFlight(task[r]) /\ ~InFlight(task'[r]))
          => /\ now - task[r].startedAt <= requestTimeout
             /\ (now - task[r].startedAt = requestTimeout /\ task'[r].msg = MsgTimeout)
                   => task'[r].result \in {"rejected", "timeoutText"}
             /\ \A o \in Tasks \ {r} : InFlight(task[o]) => task'[o] = task[o]]_vars

\* C35: the periodic tasks are not re-entrant. The sweep of a cache and the cleanup of
\* the limiter are single steps with no await. The periodic full health check awaits
\* its probes, which are aborted 5 s after they start, so whenever the 5-minute timer
\* fires the run started by the previous firing has completed.
C35_PeriodicNotReentrant ==
    [][(run'["periodic"].pc = "probing" /\ run'["periodic"].startedAt = now
        /\ run'["periodic"] /= run["periodic"])
       => /\ run["periodic"].pc \in {"idle", "done"}
          /\ run["periodic"].pc = "done"
                => now >= run["periodic"].startedAt + PeriodicInterval]_vars

\* C35 witness: the timer has fired a second time, one period after a run whose
\* probes took their whole timeout
C35_Witness ==
    /\ run["periodic"].pc = "probing"
    /\ run["periodic"].startedAt = 2 * PeriodicInterval
    /\ now = 2 * PeriodicInterval
    /\ completed /= "none"

====
